---- MODULE Spec2Model ----
(***************************************************************************)
(* Model of the symbol_master sync job (src/src/main.rs).                  *)
(*                                                                         *)
(* One execution of main() is a run.  The tables symbol_master and         *)
(* job_status outlive a run; everything else is local to the process and   *)
(* is reset when the next run starts.  A run stops in one of three ways:   *)
(* main returns Ok(()), main returns Err (a `?` propagated an error), or   *)
(* the process is killed.  `pc` keeps the place where the run stopped.     *)
(*                                                                         *)
(* When main is left, by return, by `?` or by a kill, the memory of the     *)
(* process is gone: the model resets it, except after Ok(()), where it is  *)
(* kept as it stood at line 254.  The database is a server: what it holds  *)
(* (the two tables, the number of statements a transaction executed) stays. *)
(*                                                                         *)
(* Abstractions:                                                           *)
(*  - Utc::now() is read from a clock that ticks once per run.             *)
(*  - database and HTTP errors are choices of the environment.             *)
(*  - strings are tokens; an ipo string is the tuple of its dash-separated *)
(*    parts; Option<T> is a tuple of length 0 (None) or 1 (Some).          *)
(*  - the f64 market capitalisation (in millions) is a fixed-point number  *)
(*    counted in tenths of a currency unit, of a magnitude far inside the  *)
(*    i64 range (the saturation of the cast is not reached).               *)
(*                                                                         *)
(* Three specifications share the actions:                                 *)
(*  - Spec: whole runs, from the databases of InitialTables;               *)
(*  - CapSpec: the record of one symbol, from line 160 to the commit, for  *)
(*    every capitalisation of the bounded range;                           *)
(*  - LoopSpec: the enrichment loop alone, with the fairness of the async  *)
(*    runtime, for the claim that it terminates.                           *)
(***************************************************************************)
EXTENDS Integers, Sequences, FiniteSets, TLC

(* ------------------------------ bounds -------------------------------- *)

\* number of executions of the job that are explored
MaxRuns == 1

\* longest symbol listing the provider returns
MaxUniverse == 2

\* the identifiers the provider may list
Symbols == {"A", "B", "C"}

\* largest magnitude of a reported capitalisation, in tenths of a currency unit
MaxCap == 25

(* --------------------------- Option<T> -------------------------------- *)

None == <<>>

Some(v) == <<v>>

(* ------------------------ provider payloads --------------------------- *)

\* market identifier codes the provider may report for a symbol
MicsOf(s) == IF s = "A" THEN {None} ELSE {Some("XNYS")}

\* struct Symbol values the provider may list
ProviderListings ==
    UNION { { [symbol |-> s, mic |-> m, currency |-> Some("USD")] :
                m \in MicsOf(s) } : s \in Symbols }

NoDuplicates(seq) ==
    \A i, j \in DOMAIN seq : i # j => seq[i].symbol # seq[j].symbol

\* the listings /stock/symbol may return: identifiers unique within a fetch
Universes ==
    { u \in UNION { [1..n -> ProviderListings] : n \in 0..MaxUniverse } :
        NoDuplicates(u) }

\* the all-None Profile of the three fallback arms
FallbackProfile ==
    [name |-> None, country |-> None, ipo |-> None,
     market_cap |-> None, industry |-> None]

\* Profile values /stock/profile2 bodies may decode into
ProviderProfiles ==
    { [name |-> Some("Acme Corp"), country |-> Some("US"),
       ipo |-> Some(<<2020, 5, 15>>), market_cap |-> Some(25),
       industry |-> Some("Technology")] }

\* Profile values with every marketCapitalization of the bounded range:
\* absent, negative, zero, positive, whole and fractional
CapProfiles ==
    { [p EXCEPT !.market_cap = c] :
        p \in ProviderProfiles,
        c \in {None} \cup { Some(k) : k \in -MaxCap..MaxCap } }

\* what one profile2 request can come back with
Responses ==
    { [kind |-> "transport_error", body |-> None],
      [kind |-> "status_429", body |-> None],
      [kind |-> "undecodable", body |-> None] }
    \cup { [kind |-> "decoded", body |-> Some(p)] : p \in ProviderProfiles }

(* --------------------------- pure helpers ----------------------------- *)

\* a conversion that rounds down
ToI64Floor(tenths) == tenths \div 10

\* f64 -> i64 `as` cast of cap * 1_000_000.0: truncation toward zero
ToI64(tenths) ==
    IF tenths >= 0 THEN tenths \div 10 ELSE -((-tenths) \div 10)

DaysIn(y, m) ==
    IF m \in {4, 6, 9, 11} THEN 30
    ELSE IF m = 2
         THEN (IF (y % 4 = 0 /\ y % 100 # 0) \/ y % 400 = 0 THEN 29 ELSE 28)
         ELSE 31

\* NaiveDate::parse_from_str(date, "%Y-%m-%d").ok()
ParseDate(parts) ==
    IF /\ Len(parts) = 3
       /\ \A i \in 1..3 : parts[i] \in Int
       /\ parts[2] \in 1..12
       /\ parts[3] \in 1..DaysIn(parts[1], parts[2])
    THEN Some([year |-> parts[1], month |-> parts[2], day |-> parts[3]])
    ELSE None

\* symbols.iter().map(|s| s.symbol.clone()).collect::<HashSet>()
SymbolSet(syms) == { syms[i].symbol : i \in DOMAIN syms }

\* the SELECT without its WHERE clause
ActiveSymbolsAnyRow(tbl) == DOMAIN tbl

\* SELECT symbol FROM symbol_master WHERE is_active = TRUE
ActiveSymbols(tbl) == { s \in DOMAIN tbl : tbl[s].is_active }

\* the filter left out: every fetched symbol is enriched and upserted
NewSymbolsUnfiltered(syms, existing) == syms

\* symbols.iter().filter(|s| !existing_set.contains(&s.symbol))
NewSymbols(syms, existing) ==
    SelectSeq(syms, LAMBDA s : s.symbol \notin existing)

\* the difference taken the wrong way round
DelistedSymbolsReversed(existing, symbolSet) == symbolSet \ existing

\* intersection called in place of difference
DelistedSymbolsIntersection(existing, symbolSet) == existing \cap symbolSet

\* existing_set.difference(&symbol_set)
DelistedSymbols(existing, symbolSet) == existing \ symbolSet

\* a record that is active only when the provider named the company
BuildRecordActiveIfNamed(sym, prof, t) ==
    [symbol       |-> sym.symbol,
     exchange     |-> sym.mic,
     name         |-> prof.name,
     sector       |-> prof.industry,
     industry     |-> prof.industry,
     currency     |-> sym.currency,
     country      |-> prof.country,
     ipo_date     |-> IF prof.ipo = None THEN None ELSE ParseDate(prof.ipo[1]),
     market_cap   |-> IF prof.market_cap = None THEN None
                      ELSE Some(ToI64(prof.market_cap[1])),
     is_active    |-> prof.name # None,
     data_source  |-> "Finnhub",
     last_updated |-> t]

\* the SymbolMaster built from a listing and its (possibly fallback) profile
BuildRecord(sym, prof, t) ==
    [symbol       |-> sym.symbol,
     exchange     |-> sym.mic,
     name         |-> prof.name,
     sector       |-> prof.industry,
     industry     |-> prof.industry,
     currency     |-> sym.currency,
     country      |-> prof.country,
     ipo_date     |-> IF prof.ipo = None THEN None ELSE ParseDate(prof.ipo[1]),
     market_cap   |-> IF prof.market_cap = None THEN None
                      ELSE Some(ToI64(prof.market_cap[1])),
     is_active    |-> TRUE,
     data_source  |-> "Finnhub",
     last_updated |-> t]

\* DO UPDATE SET col = COALESCE(EXCLUDED.col, symbol_master.col) for the
\* profile columns: a null never replaces a stored value
UpsertCoalesce(tbl, rec) ==
    IF rec.symbol \in DOMAIN tbl
    THEN [tbl EXCEPT ![rec.symbol] =
            [c \in DOMAIN rec |->
                IF c \in {"name", "sector", "industry", "country", "ipo_date",
                          "market_cap"} /\ rec[c] = None
                THEN @[c]
                ELSE rec[c]]]
    ELSE [s \in DOMAIN tbl \cup {rec.symbol} |->
            IF s = rec.symbol THEN rec ELSE tbl[s]]

\* INSERT ... ON CONFLICT (symbol) DO UPDATE SET <every other column>
Upsert(tbl, rec) ==
    IF rec.symbol \in DOMAIN tbl
    THEN [tbl EXCEPT ![rec.symbol] =
            [@ EXCEPT !.exchange = rec.exchange, !.name = rec.name,
                      !.sector = rec.sector, !.industry = rec.industry,
                      !.currency = rec.currency, !.country = rec.country,
                      !.ipo_date = rec.ipo_date,
                      !.market_cap = rec.market_cap,
                      !.is_active = rec.is_active,
                      !.data_source = rec.data_source,
                      !.last_updated = rec.last_updated]]
    ELSE [s \in DOMAIN tbl \cup {rec.symbol} |->
            IF s = rec.symbol THEN rec ELSE tbl[s]]

\* a DELETE in place of the UPDATE
ApplyDelistingsPurge(tbl, delisted, t) ==
    [s \in DOMAIN tbl \ delisted |-> tbl[s]]

\* the update that forgets the flag and only stamps the rows
ApplyDelistingsStampOnly(tbl, delisted, t) ==
    [s \in DOMAIN tbl |->
        IF s \in delisted THEN [tbl[s] EXCEPT !.last_updated = t] ELSE tbl[s]]

\* UPDATE symbol_master SET is_active = FALSE, last_updated = $1
\* WHERE symbol = ANY($2)
ApplyDelistings(tbl, delisted, t) ==
    [s \in DOMAIN tbl |->
        IF s \in delisted
        THEN [tbl[s] EXCEPT !.is_active = FALSE, !.last_updated = t]
        ELSE tbl[s]]

\* (symbols.len() as f64 * 0.9) as i64
ValidationThreshold(n) == (9 * n) \div 10

\* the job_status row of a completed run
JobRow(t, added, delisted) ==
    [job_name |-> "symbol_sync", last_run |-> t, status |-> "success",
     details |-> <<"Added ", added, " new, delisted ", delisted>>]

ZeroCounters ==
    [rate_limit |-> 0, api_parse |-> 0, api_fetch |-> 0,
     data_validation |-> 0, api_calls |-> 0, completed |-> 0]

ZeroGauges ==
    [total_symbols |-> 0, new_symbols |-> 0, delisted_symbols |-> 0,
     active_symbols |-> 0]

\* let mut retries = 3
InitialRetries == 3

\* one row per job_name, replaced by each run
ReplaceJob(log, row) == <<row>>

\* INSERT INTO job_status (...) VALUES (...)
AppendJob(log, row) == Append(log, row)

\* counter!(name, 1) for each of the names
Bump(c, names) ==
    [k \in DOMAIN c |-> IF k \in names THEN c[k] + 1 ELSE c[k]]

\* the budget test placed after the decrement: gives up one retry early
OnResponseOneRetryShort(resp, r) ==
    CASE resp.kind = "status_429" ->
            IF r - 1 = 0
            THEN [done |-> TRUE, profile |-> FallbackProfile, retries |-> r,
                  slept |-> 0, counted |-> {"rate_limit"}]
            ELSE [done |-> FALSE, profile |-> FallbackProfile,
                  retries |-> r - 1, slept |-> 1, counted |-> {"rate_limit"}]
      [] resp.kind = "transport_error" ->
            [done |-> TRUE, profile |-> FallbackProfile, retries |-> r,
             slept |-> 0, counted |-> {"api_fetch"}]
      [] resp.kind = "undecodable" ->
            [done |-> TRUE, profile |-> FallbackProfile, retries |-> r,
             slept |-> 0, counted |-> {"api_calls", "api_parse"}]
      [] resp.kind = "decoded" ->
            [done |-> TRUE, profile |-> resp.body[1], retries |-> r,
             slept |-> 0, counted |-> {"api_calls"}]

\* every failure retried like a 429 while the budget lasts
OnResponseRetryAnyFailure(resp, r) ==
    CASE resp.kind \in {"status_429", "transport_error", "undecodable"} ->
            IF r = 0
            THEN [done |-> TRUE, profile |-> FallbackProfile, retries |-> r,
                  slept |-> 0, counted |-> {"rate_limit"}]
            ELSE [done |-> FALSE, profile |-> FallbackProfile,
                  retries |-> r - 1, slept |-> 1, counted |-> {"rate_limit"}]
      [] resp.kind = "decoded" ->
            [done |-> TRUE, profile |-> resp.body[1], retries |-> r,
             slept |-> 0, counted |-> {"api_calls"}]

\* the budget test `retries < 0`: one retry more than the budget
OnResponseOneRetryMore(resp, r) ==
    CASE resp.kind = "status_429" ->
            IF r < 0
            THEN [done |-> TRUE, profile |-> FallbackProfile, retries |-> r,
                  slept |-> 0, counted |-> {"rate_limit"}]
            ELSE [done |-> FALSE, profile |-> FallbackProfile,
                  retries |-> r - 1, slept |-> 1, counted |-> {"rate_limit"}]
      [] resp.kind = "transport_error" ->
            [done |-> TRUE, profile |-> FallbackProfile, retries |-> r,
             slept |-> 0, counted |-> {"api_fetch"}]
      [] resp.kind = "undecodable" ->
            [done |-> TRUE, profile |-> FallbackProfile, retries |-> r,
             slept |-> 0, counted |-> {"api_calls", "api_parse"}]
      [] resp.kind = "decoded" ->
            [done |-> TRUE, profile |-> resp.body[1], retries |-> r,
             slept |-> 0, counted |-> {"api_calls"}]

\* lines 111-157: what one iteration of the retry loop does with a response
\*   done: the loop breaks with `profile`; otherwise it sleeps and continues
OnResponse(resp, r) ==
    CASE resp.kind = "status_429" ->
            IF r = 0
            THEN [done |-> TRUE, profile |-> FallbackProfile, retries |-> r,
                  slept |-> 0, counted |-> {"rate_limit"}]
            ELSE [done |-> FALSE, profile |-> FallbackProfile,
                  retries |-> r - 1, slept |-> 1, counted |-> {"rate_limit"}]
      [] resp.kind = "transport_error" ->
            [done |-> TRUE, profile |-> FallbackProfile, retries |-> r,
             slept |-> 0, counted |-> {"api_fetch"}]
      [] resp.kind = "undecodable" ->
            [done |-> TRUE, profile |-> FallbackProfile, retries |-> r,
             slept |-> 0, counted |-> {"api_calls", "api_parse"}]
      [] resp.kind = "decoded" ->
            [done |-> TRUE, profile |-> resp.body[1], retries |-> r,
             slept |-> 0, counted |-> {"api_calls"}]

\* .execute(&pool): the statement runs outside the transaction and is
\* committed on its own
ExecuteOnPool(committed, view, rec) ==
    [committed |-> Upsert(committed, rec), view |-> Upsert(view, rec)]

\* every statement applied to the table as the transaction found it, so that
\* only the last one survives the commit
ExecuteOnSnapshot(committed, view, rec) ==
    [committed |-> committed, view |-> Upsert(committed, rec)]

\* .execute(tx.as_mut()): the statement runs inside the transaction, so the
\* committed table keeps its rows until the commit
ExecuteInTx(committed, view, rec) ==
    [committed |-> committed, view |-> Upsert(view, rec)]

\* the for loop of line 101: the statement that follows `built` iterations
AfterSymbol(built, total) == IF built < total THEN "limiter" ELSE "begin"

\* active_count < (symbols.len() as f64 * 0.9) as i64
BelowThreshold(count, n) == count < ValidationThreshold(n)

(* ------------------------------ state --------------------------------- *)

VARIABLES
    symbol_master,     \* the committed table: symbol -> row
    job_status,        \* the committed audit log, a sequence of rows
    runs,              \* executions started so far; also the clock
    pc,                \* the statement the run is at (or stopped at)
    result,            \* "idle" | "running" | "ok" | "err" | "killed"
    symbols,           \* Vec<Symbol> of the fetch
    existing_set,      \* active identifiers read at reconciliation
    new_symbols,       \* Vec<&Symbol>
    delisted_symbols,  \* identifiers to delist
    records,           \* Vec<SymbolMaster> built so far
    retries,           \* retry budget left for the current symbol
    profile,           \* Profile the loop broke with
    tx,                \* the open transaction's view of symbol_master
    inserted,          \* upserts the server executed in the run's transaction
    active_count,      \* result of the validation count
    counters,          \* metrics counters of the process
    gauges,            \* metrics gauges of the process
    permits,           \* limiter permits acquired in this run
    sent,              \* profile2 requests sent in this run
    outcomes,          \* responses received for the current symbol
    sleeps,            \* two-second sleeps made for the current symbol
    table0,            \* symbol_master as it was when the run started
    jobs0,             \* job_status as it was when the run started
    foreign,           \* another client wrote symbol_master during the run
    before             \* the run that ended last, where later runs depend on it

vars ==
    <<symbol_master, job_status, runs, pc, result, symbols, existing_set,
      new_symbols, delisted_symbols, records, retries, profile, tx, inserted,
      active_count, counters, gauges, permits, sent, outcomes, sleeps,
      table0, jobs0, foreign, before>>

tables == <<symbol_master, job_status>>

locals ==
    <<symbols, existing_set, new_symbols, delisted_symbols, records, retries,
      profile, tx, inserted, active_count>>

metrics == <<counters, gauges>>

traffic == <<permits, sent, outcomes, sleeps>>

history == <<table0, jobs0, foreign, before>>

\* Utc::now()
UtcNow == runs

EmptyTable == [s \in {} |-> None]

Listing(s) == CHOOSE l \in ProviderListings : l.symbol = s

\* what two earlier executions left behind: the first, at time -2, found the
\* universe {A, B} on an empty table; the second, at time -1, found {A}
SeededTable ==
    LET full  == CHOOSE p \in ProviderProfiles : TRUE
        first == Upsert(Upsert(EmptyTable,
                               BuildRecord(Listing("A"), full, -2)),
                        BuildRecord(Listing("B"), FallbackProfile, -2))
    IN ApplyDelistings(first, {"B"}, -1)

SeededJobs == <<JobRow(-2, 2, 0), JobRow(-1, 0, 1)>>

\* what a third execution, at time 0, left when it found {A, C}
GrownTable ==
    Upsert(SeededTable, BuildRecord(Listing("C"), FallbackProfile, 0))

GrownJobs == Append(SeededJobs, JobRow(0, 1, 0))

\* what three executions of another history left behind: the first, at time
\* -2, found {A, B} and decoded both profiles; the second, at time -1, found
\* {A}; the third, at time 0, found {C}, committed its record and was killed
\* before the delisting update, so that A is still active
CrashedTable ==
    LET full  == CHOOSE p \in ProviderProfiles : TRUE
        first == Upsert(Upsert(EmptyTable,
                               BuildRecord(Listing("A"), full, -2)),
                        BuildRecord(Listing("B"), full, -2))
    IN Upsert(ApplyDelistings(first, {"B"}, -1),
              BuildRecord(Listing("C"), FallbackProfile, 0))

\* the run that ended last, for the runs after it: the universe it fetched,
\* kept when main returned Ok or when the run stopped between the commit and
\* the delisting update
EndOfRun(how, at, fetched) ==
    IF how = "ok" \/ at = "delist"
    THEN Some([universe |-> SymbolSet(fetched), result |-> how])
    ELSE None

\* the databases a run may find: a fresh one and three used ones, each with
\* the run that ended last on it
InitialTables ==
    { [master |-> EmptyTable, jobs |-> <<>>, before |-> None],
      [master |-> SeededTable, jobs |-> SeededJobs,
       before |-> EndOfRun("ok", "end", <<Listing("A")>>)],
      [master |-> GrownTable, jobs |-> GrownJobs,
       before |-> EndOfRun("ok", "end", <<Listing("A"), Listing("C")>>)],
      [master |-> CrashedTable, jobs |-> SeededJobs,
       before |-> EndOfRun("killed", "delist", <<Listing("C")>>)] }

Init ==
    /\ \E db \in InitialTables :
        /\ symbol_master = db.master
        /\ job_status = db.jobs
        /\ before = db.before
    /\ runs = 0
    /\ pc = "start"
    /\ result = "idle"
    /\ symbols = <<>>
    /\ existing_set = {}
    /\ new_symbols = <<>>
    /\ delisted_symbols = {}
    /\ records = <<>>
    /\ retries = 0
    /\ profile = FallbackProfile
    /\ tx = None
    /\ inserted = 0
    /\ active_count = 0
    /\ counters = ZeroCounters
    /\ gauges = ZeroGauges
    /\ permits = 0
    /\ sent = 0
    /\ outcomes = <<>>
    /\ sleeps = 0
    /\ table0 = symbol_master
    /\ jobs0 = job_status
    /\ foreign = FALSE

Running(at) == result = "running" /\ pc = at

\* the memory of a process: fresh at its start, gone with it when main is
\* left early; an open transaction is rolled back with it
Dropped ==
    /\ symbols' = <<>>
    /\ existing_set' = {}
    /\ new_symbols' = <<>>
    /\ delisted_symbols' = {}
    /\ records' = <<>>
    /\ retries' = 0
    /\ profile' = FallbackProfile
    /\ tx' = None
    /\ active_count' = 0
    /\ counters' = ZeroCounters
    /\ gauges' = ZeroGauges
    /\ permits' = 0
    /\ sent' = 0
    /\ outcomes' = <<>>
    /\ sleeps' = 0

\* an error path that writes a "failed" row to job_status before it returns
FatalRecordsFailure ==
    /\ result' = "err"
    /\ before' = EndOfRun("err", pc, symbols)
    /\ Dropped
    /\ job_status' =
          Append(job_status, [JobRow(UtcNow, 0, 0) EXCEPT !.status = "failed"])
    /\ UNCHANGED <<symbol_master, runs, pc, inserted, table0, jobs0, foreign>>

\* a `?` that propagates an error out of main: the run ends where it stands
\* and an open transaction is dropped, which rolls it back
Fatal ==
    /\ result' = "err"
    /\ before' = EndOfRun("err", pc, symbols)
    /\ Dropped
    /\ UNCHANGED <<tables, runs, pc, inserted, table0, jobs0, foreign>>

(* ----------------------------- the run -------------------------------- *)

\* the scheduler starts the process (the table is not followed into a
\* further run once another client has written it)
StartRun ==
    /\ result # "running"
    /\ ~foreign
    /\ runs < MaxRuns
    /\ runs' = runs + 1
    /\ pc' = "setup"
    /\ result' = "running"
    /\ Dropped
    /\ inserted' = 0
    /\ table0' = symbol_master
    /\ jobs0' = job_status
    /\ foreign' = FALSE
    /\ UNCHANGED <<tables, before>>

\* lines 52-73: metrics exporter, environment, client, pool
Setup ==
    /\ Running("setup")
    /\ pc' = "fetch"
    /\ UNCHANGED <<tables, runs, result, locals, metrics, traffic, history>>

SetupFails ==
    /\ Running("setup")
    /\ Fatal

\* lines 75-81: the listing is fetched and decoded
FetchUniverse ==
    /\ Running("fetch")
    /\ \E u \in Universes :
        /\ symbols' = u
        /\ gauges' = [gauges EXCEPT !.total_symbols = Len(u)]
    /\ pc' = "reconcile"
    /\ UNCHANGED <<tables, runs, result, existing_set, new_symbols,
                   delisted_symbols, records, retries, profile, tx, inserted,
                   active_count, counters, traffic, history>>

\* lines 79, 80: send() or json() returns Err
FetchFails ==
    /\ Running("fetch")
    /\ Fatal

\* lines 84-97: read the active identifiers, compute the two differences
Reconcile ==
    /\ Running("reconcile")
    /\ LET existing == ActiveSymbols(symbol_master)
           fresh    == NewSymbols(symbols, existing)
           gone     == DelistedSymbols(existing, SymbolSet(symbols))
       IN /\ existing_set' = existing
          /\ new_symbols' = fresh
          /\ delisted_symbols' = gone
          /\ gauges' = [gauges EXCEPT !.new_symbols = Len(fresh),
                                      !.delisted_symbols = Cardinality(gone)]
          /\ pc' = AfterSymbol(0, Len(fresh))
    /\ UNCHANGED <<tables, runs, result, symbols, records, retries, profile,
                   tx, inserted, active_count, counters, traffic, history>>

\* line 86: the SELECT returns Err
ReconcileFails ==
    /\ Running("reconcile")
    /\ Fatal

\* lines 101-104: next symbol of the for loop, one limiter permit
AcquirePermit ==
    /\ Running("limiter")
    /\ permits' = permits + 1
    /\ retries' = InitialRetries
    /\ outcomes' = <<>>
    /\ sleeps' = 0
    /\ pc' = "request"
    /\ UNCHANGED <<tables, runs, result, symbols, existing_set, new_symbols,
                   delisted_symbols, records, profile, tx, inserted,
                   active_count, metrics, sent, history>>

\* lines 105-158: one iteration of the retry loop
EnrichRequest ==
    /\ Running("request")
    /\ \E resp \in Responses :
        LET h == OnResponse(resp, retries)
        IN /\ sent' = sent + 1
           /\ outcomes' = Append(outcomes, resp.kind)
           /\ counters' = Bump(counters, h.counted)
           /\ sleeps' = sleeps + h.slept
           /\ retries' = h.retries
           /\ profile' = h.profile
           /\ pc' = IF h.done THEN "build" ELSE "request"
    /\ UNCHANGED <<tables, runs, result, symbols, existing_set, new_symbols,
                   delisted_symbols, records, tx, inserted, active_count,
                   gauges, permits, history>>

\* lines 160-176: the record of the current symbol is built and pushed; the
\* locals of the loop body end with the iteration
Build ==
    /\ Running("build")
    /\ LET sym == new_symbols[Len(records) + 1]
       IN records' = Append(records, BuildRecord(sym, profile, UtcNow))
    /\ pc' = AfterSymbol(Len(records) + 1, Len(new_symbols))
    /\ retries' = 0
    /\ profile' = FallbackProfile
    /\ outcomes' = <<>>
    /\ sleeps' = 0
    /\ UNCHANGED <<tables, runs, result, symbols, existing_set, new_symbols,
                   delisted_symbols, tx, inserted, active_count, metrics,
                   permits, sent, history>>

\* line 180: pool.begin()
BeginTx ==
    /\ Running("begin")
    /\ tx' = Some(symbol_master)
    /\ inserted' = 0
    /\ pc' = IF Len(records) = 0 THEN "commit" ELSE "insert"
    /\ UNCHANGED <<tables, runs, result, symbols, existing_set, new_symbols,
                   delisted_symbols, records, retries, profile, active_count,
                   metrics, traffic, history>>

BeginFails ==
    /\ Running("begin")
    /\ Fatal

\* lines 181-215: the upsert of the next record
InsertRecord ==
    /\ Running("insert")
    /\ LET w == ExecuteInTx(symbol_master, tx[1], records[inserted + 1])
       IN /\ symbol_master' = w.committed
          /\ tx' = Some(w.view)
    /\ inserted' = inserted + 1
    /\ pc' = IF inserted + 1 < Len(records) THEN "insert" ELSE "commit"
    /\ UNCHANGED <<job_status, runs, result, symbols, existing_set,
                   new_symbols, delisted_symbols, records, retries, profile,
                   active_count, metrics, traffic, history>>

\* line 214: execute returns Err
InsertFails ==
    /\ Running("insert")
    /\ Fatal

\* line 216: tx.commit()
Commit ==
    /\ Running("commit")
    /\ symbol_master' = tx[1]
    /\ tx' = None
    /\ pc' = "delist"
    /\ UNCHANGED <<job_status, runs, result, symbols, existing_set,
                   new_symbols, delisted_symbols, records, retries, profile,
                   inserted, active_count, metrics, traffic, history>>

CommitFails ==
    /\ Running("commit")
    /\ Fatal

\* lines 219-229: the set-based delisting update
Delist ==
    /\ Running("delist")
    /\ symbol_master' =
          IF delisted_symbols # {}
          THEN ApplyDelistings(symbol_master, delisted_symbols, UtcNow)
          ELSE symbol_master
    /\ pc' = "validate"
    /\ UNCHANGED <<job_status, runs, result, locals, metrics, traffic,
                   history>>

\* line 228: the UPDATE returns Err
DelistFails ==
    /\ Running("delist")
    /\ delisted_symbols # {}
    /\ Fatal

\* lines 232-240: count the active rows and compare with the universe
Validate ==
    /\ Running("validate")
    /\ LET total == Cardinality(ActiveSymbols(symbol_master))
       IN /\ active_count' = total
          /\ gauges' = [gauges EXCEPT !.active_symbols = total]
          /\ counters' =
                IF BelowThreshold(total, Len(symbols))
                THEN Bump(counters, {"data_validation"})
                ELSE counters
    /\ pc' = "record"
    /\ UNCHANGED <<tables, runs, result, symbols, existing_set, new_symbols,
                   delisted_symbols, records, retries, profile, tx, inserted,
                   traffic, history>>

\* line 234: the SELECT COUNT(*) returns Err
ValidateFails ==
    /\ Running("validate")
    /\ Fatal

\* lines 242-254: the job_status row, then Ok(())
RecordJob ==
    /\ Running("record")
    /\ job_status' =
          AppendJob(job_status,
                    JobRow(UtcNow, Len(records),
                           Cardinality(delisted_symbols)))
    /\ counters' = Bump(counters, {"completed"})
    /\ pc' = "end"
    /\ result' = "ok"
    /\ before' = EndOfRun("ok", "end", symbols)
    /\ UNCHANGED <<symbol_master, runs, locals, gauges, traffic, table0,
                   jobs0, foreign>>

\* line 250: the INSERT returns Err
RecordFails ==
    /\ Running("record")
    /\ Fatal

\* The database is a server shared with other clients (line 72 connects to
\* it).  One of them deactivates the active rows; it is given one moment per
\* run, between the delisting update and the validation count, which is where
\* the count can come to differ from the size of the fetched universe.
OtherWriter ==
    /\ Running("validate")
    /\ ~foreign
    /\ ActiveSymbols(symbol_master) # {}
    /\ symbol_master' =
          [s \in DOMAIN symbol_master |->
             [symbol_master[s] EXCEPT !.is_active = FALSE]]
    /\ foreign' = TRUE
    /\ UNCHANGED <<job_status, runs, pc, result, locals, metrics, traffic,
                   table0, jobs0, before>>

\* the process is killed; an open transaction is rolled back by the server
Kill ==
    /\ result = "running"
    /\ result' = "killed"
    /\ before' = EndOfRun("killed", pc, symbols)
    /\ Dropped
    /\ UNCHANGED <<tables, runs, pc, inserted, table0, jobs0, foreign>>

Next ==
    \/ StartRun
    \/ Setup
    \/ SetupFails
    \/ FetchUniverse
    \/ FetchFails
    \/ Reconcile
    \/ ReconcileFails
    \/ AcquirePermit
    \/ EnrichRequest
    \/ Build
    \/ BeginTx
    \/ BeginFails
    \/ InsertRecord
    \/ InsertFails
    \/ Commit
    \/ CommitFails
    \/ Delist
    \/ DelistFails
    \/ Validate
    \/ ValidateFails
    \/ RecordJob
    \/ RecordFails
    \/ OtherWriter
    \/ Kill

Spec == Init /\ [][Next]_vars

(* ----------------- the record of one symbol, any profile --------------- *)

\* A run on an empty database whose universe is one listing, at line 160: the
\* retry loop has broken with a Profile, either the fallback one (after a
\* transport failure) or a decoded one with any capitalisation of the range.
CapInit ==
    /\ symbol_master = EmptyTable
    /\ job_status = <<>>
    /\ before = None
    /\ runs = 1
    /\ pc = "build"
    /\ result = "running"
    /\ \E l \in ProviderListings :
        /\ symbols = <<l>>
        /\ new_symbols = <<l>>
    /\ existing_set = {}
    /\ delisted_symbols = {}
    /\ records = <<>>
    /\ retries = InitialRetries
    /\ \E resp \in { r \in Responses : r.kind = "transport_error" }
                  \cup { [kind |-> "decoded", body |-> Some(p)] :
                            p \in CapProfiles } :
        LET h == OnResponse(resp, InitialRetries)
        IN /\ profile = h.profile
           /\ outcomes = <<resp.kind>>
           /\ counters = Bump(ZeroCounters, h.counted)
    /\ tx = None
    /\ inserted = 0
    /\ active_count = 0
    /\ gauges = [ZeroGauges EXCEPT !.total_symbols = 1, !.new_symbols = 1]
    /\ permits = 1
    /\ sent = 1
    /\ sleeps = 0
    /\ table0 = EmptyTable
    /\ jobs0 = <<>>
    /\ foreign = FALSE

\* lines 160-216: the record is built, upserted and committed
CapNext ==
    \/ Build
    \/ BeginTx
    \/ InsertRecord
    \/ Commit

CapSpec == CapInit /\ [][CapNext]_vars

(* ------------------------- the enrichment loop ------------------------ *)

\* A run at line 101, on any of the databases and with any fetched universe:
\* the reconciliation is done and the for loop is about to start.
LoopInit ==
    /\ \E db \in InitialTables, u \in Universes :
        LET existing == ActiveSymbols(db.master)
            fresh    == NewSymbols(u, existing)
            gone     == DelistedSymbols(existing, SymbolSet(u))
        IN /\ symbol_master = db.master
           /\ job_status = db.jobs
           /\ before = db.before
           /\ symbols = u
           /\ existing_set = existing
           /\ new_symbols = fresh
           /\ delisted_symbols = gone
           /\ gauges = [ZeroGauges EXCEPT
                           !.total_symbols = Len(u),
                           !.new_symbols = Len(fresh),
                           !.delisted_symbols = Cardinality(gone)]
           /\ pc = AfterSymbol(0, Len(fresh))
    /\ runs = 1
    /\ result = "running"
    /\ records = <<>>
    /\ retries = 0
    /\ profile = FallbackProfile
    /\ tx = None
    /\ inserted = 0
    /\ active_count = 0
    /\ counters = ZeroCounters
    /\ permits = 0
    /\ sent = 0
    /\ outcomes = <<>>
    /\ sleeps = 0
    /\ table0 = symbol_master
    /\ jobs0 = job_status
    /\ foreign = FALSE

\* lines 101-177: the for loop
LoopNext ==
    \/ AcquirePermit
    \/ EnrichRequest
    \/ Build

\* The statements of the loop are run by the tokio runtime (line 49): an
\* awaited permit is granted as the quota refills, a request that was sent
\* ends with a response or an error, a two-second sleep ends, and the code
\* between two awaits runs on.
LoopSpec ==
    /\ LoopInit
    /\ [][LoopNext]_vars
    /\ WF_vars(AcquirePermit)
    /\ WF_vars(EnrichRequest)
    /\ WF_vars(Build)

(* ------------------------------ claims -------------------------------- *)

\* the run has computed new_symbols and delisted_symbols and still holds them
Reconciled ==
    /\ result \in {"running", "ok"}
    /\ pc \notin {"setup", "fetch", "reconcile"}

\* the fetched universe U and the active set A the run started from
U == SymbolSet(symbols)

A == ActiveSymbols(table0)

All429(seq) == \A i \in DOMAIN seq : seq[i] = "status_429"

\* C1: once reconciled, the identifiers of new_symbols are exactly U \ A, one
\* entry each, delisted_symbols is exactly A \ U, and the two are disjoint
C1_Reconciliation ==
    Reconciled =>
        /\ SymbolSet(new_symbols) = U \ A
        /\ Len(new_symbols) = Cardinality(U \ A)
        /\ delisted_symbols = A \ U
        /\ SymbolSet(new_symbols) \cap delisted_symbols = {}

C1_Witness ==
    /\ Reconciled
    /\ new_symbols # <<>>
    /\ delisted_symbols # {}
    /\ U \cap A # {}

\* C2: when a run has returned Ok and no other client wrote, a symbol has an
\* active row exactly when it
\* is in the universe the run fetched: U \ A and A \cap U active, A \ U inactive
C2_ActiveIffListed ==
    (result = "ok" /\ ~foreign) =>
        /\ \A s \in Symbols :
              (s \in DOMAIN symbol_master /\ symbol_master[s].is_active)
                  <=> s \in U
        /\ \A s \in U \ A : s \in ActiveSymbols(symbol_master)
        /\ \A s \in A \cap U : s \in ActiveSymbols(symbol_master)
        /\ \A s \in A \ U :
              s \in DOMAIN symbol_master /\ ~symbol_master[s].is_active

C2_Witness ==
    /\ result = "ok"
    /\ ~foreign
    /\ U \ A # {}
    /\ A \ U # {}
    /\ A \cap U # {}

\* C3 as claimed: a symbol that received 3 consecutive 429 responses has had
\* 3 delay-and-retry cycles and is recorded from the fallback Profile
C3_FallbackAfterThree ==
    ( /\ Running("build")
      /\ Len(outcomes) >= 3
      /\ All429(SubSeq(outcomes, 1, 3)) )
    => (sleeps = 3 /\ profile = FallbackProfile)

\* C3 amended: throttling makes the loop give up only at the 4th consecutive
\* 429 (the first request and its 3 retries), after exactly 3 delay-and-retry
\* cycles, with the fallback Profile; the record built from it is active and
\* has every profile column null
C3_FallbackAfterFour ==
    /\ []( (Running("build") /\ All429(outcomes))
             => (Len(outcomes) = 4 /\ sleeps = 3 /\ retries = 0
                 /\ profile = FallbackProfile) )
    /\ [][ (Running("build") /\ All429(outcomes) /\ result' = "running")
             => /\ Len(records') = Len(records) + 1
                /\ LET r == records'[Len(records')]
                   IN /\ r.symbol = new_symbols[Len(records')].symbol
                      /\ r.is_active
                      /\ r.name = None /\ r.sector = None
                      /\ r.industry = None /\ r.country = None
                      /\ r.ipo_date = None /\ r.market_cap = None ]_vars

C3_Witness ==
    /\ Running("build")
    /\ Len(outcomes) = 4
    /\ All429(outcomes)
    /\ sleeps = 3

\* C4: a transport failure or an undecodable body is the last response of its
\* symbol: the loop breaks at once with the fallback Profile, and the only
\* requests and sleeps of the symbol are those of the 429s before it
C4_NoRetryOnFailure ==
    (result = "running" /\ pc \in {"request", "build"}) =>
        \A i \in DOMAIN outcomes :
            /\ i < Len(outcomes) => outcomes[i] = "status_429"
            /\ outcomes[i] \in {"transport_error", "undecodable"} =>
                  /\ pc = "build"
                  /\ profile = FallbackProfile
                  /\ sleeps = i - 1
                  /\ retries = InitialRetries - (i - 1)

C4_Witness ==
    /\ Running("build")
    /\ Len(outcomes) = 2
    /\ outcomes[2] \in {"transport_error", "undecodable"}
    /\ retries > 0

\* the statements that follow the enrichment loop
AfterEnrichment ==
    /\ result \in {"running", "ok"}
    /\ pc \in {"begin", "insert", "commit", "delist", "validate", "record",
               "end"}

\* C5: no run returns an error from the enrichment loop, and after the loop
\* there is exactly one record per new_symbols entry, in order, each active
C5_EnrichmentNeverAborts ==
    /\ result = "err" => pc \notin {"limiter", "request", "build"}
    /\ Reconciled => Len(records) <= Len(new_symbols)
    /\ AfterEnrichment =>
          /\ Len(records) = Len(new_symbols)
          /\ \A i \in DOMAIN records :
                /\ records[i].symbol = new_symbols[i].symbol
                /\ records[i].is_active

C5_Witness ==
    /\ Running("begin")
    /\ Len(records) = 2
    /\ counters.api_fetch > 0
    /\ counters.rate_limit >= 4

\* C6: while the transaction is open nothing of it is visible, and a run that
\* failed at pool.begin(), at an insert or at the commit leaves symbol_master
\* and job_status as the run found them: no new record, no delisting, no row
C6_UpsertAllOrNothing ==
    /\ (result = "running" /\ pc \in {"insert", "commit"}) =>
          (symbol_master = table0 /\ job_status = jobs0)
    /\ (result = "err" /\ pc \in {"begin", "insert", "commit"}) =>
          (symbol_master = table0 /\ job_status = jobs0 /\ tx = None)

C6_Witness ==
    /\ result = "err"
    /\ pc \in {"insert", "commit"}
    /\ inserted >= 1
    /\ ActiveSymbols(table0) # {}

\* the columns the delisting update may change
DelistingColumns == {"is_active", "last_updated"}

\* C7: no step of any run removes a row, and the delisting update leaves
\* every row outside delisted_symbols as it is and changes nothing but
\* is_active (to false) and last_updated (to now) in the rows it names
C7_RowsKeptDelistingNarrow ==
    [][ /\ DOMAIN symbol_master \subseteq DOMAIN symbol_master'
        /\ (Running("delist") /\ result' = "running") =>
              \A s \in DOMAIN symbol_master :
                 /\ \A c \in DOMAIN symbol_master[s] \ DelistingColumns :
                       symbol_master'[s][c] = symbol_master[s][c]
                 /\ s \notin delisted_symbols =>
                       symbol_master'[s] = symbol_master[s]
                 /\ s \in delisted_symbols =>
                       /\ ~symbol_master'[s].is_active
                       /\ symbol_master'[s].last_updated = UtcNow ]_vars

C7_Witness ==
    /\ Running("validate")
    /\ \E s \in delisted_symbols :
          /\ table0[s].is_active
          /\ ~symbol_master[s].is_active
          /\ symbol_master[s].last_updated = UtcNow
          /\ symbol_master[s].name # None
    /\ DOMAIN symbol_master # DOMAIN table0

\* C8: no step of the run changes a row whose symbol is neither in
\* new_symbols nor in
\* delisted_symbols; a row that was active when the run started and whose
\* symbol is in the fetched universe is as the run found it, last_updated
\* included
C8_OtherRowsUntouched ==
    /\ [][ foreign' = foreign =>
              \A s \in DOMAIN symbol_master :
                 s \notin SymbolSet(new_symbols) \cup delisted_symbols =>
                    /\ s \in DOMAIN symbol_master'
                    /\ symbol_master'[s] = symbol_master[s] ]_vars
    /\ []( ( /\ result \in {"running", "ok"}
             /\ pc \notin {"setup", "fetch"}
             /\ ~foreign ) =>
              \A s \in A \cap U :
                 /\ s \in DOMAIN symbol_master
                 /\ symbol_master[s] = table0[s] )

C8_Witness ==
    /\ result = "ok"
    /\ ~foreign
    /\ new_symbols # <<>>
    /\ delisted_symbols # {}
    /\ \E s \in A \cap U : symbol_master[s] = table0[s]

\* C9: a run that returned Ok has appended exactly one row, with status
\* "success", to the job_status it found; any other run has left job_status
\* as it found it
C9_JobStatusAppendOnly ==
    /\ result = "ok" =>
          /\ Len(job_status) = Len(jobs0) + 1
          /\ SubSeq(job_status, 1, Len(jobs0)) = jobs0
          /\ job_status[Len(job_status)].status = "success"
    /\ result # "ok" => job_status = jobs0

C9_Witness ==
    /\ result = "ok"
    /\ jobs0 # <<>>
    /\ counters.data_validation = 1
    /\ records # <<>>
    /\ \A i \in DOMAIN records : records[i].name = None

\* C10 as claimed: nothing that happens in the validation step fails the run
C10_ValidationNeverFails ==
    ~(result = "err" /\ pc = "validate")

\* C11 as claimed: a run that has passed the validation step has incremented
\* the data_validation counter exactly once when 10 * c < 9 * n, for the
\* active-row count c and the size n of the fetched universe, and not at all
\* otherwise
C11_ValidationCounter ==
    (result \in {"running", "ok"} /\ pc \in {"record", "end"}) =>
        counters.data_validation =
            IF 10 * active_count < 9 * Len(symbols) THEN 1 ELSE 0

\* C12 as claimed: at every point of a run the enrichment requests sent are
\* at most the limiter permits acquired
C12_RequestsWithinPermits ==
    result = "running" => sent <= permits

\* C13: while the universe fetch is pending, and after it has failed, the run
\* has sent no enrichment request and acquired no permit, and symbol_master
\* and job_status are as the run found them (no row written, none delisted);
\* the failing step ends the run with an error and writes nothing, and no
\* step of that run follows it
C13_FetchFailureWritesNothing ==
    /\ []( (pc = "fetch" /\ result \in {"running", "err"}) =>
             /\ symbol_master = table0
             /\ job_status = jobs0
             /\ ActiveSymbols(symbol_master) = ActiveSymbols(table0)
             /\ sent = 0 /\ permits = 0 /\ records = <<>> /\ tx = None )
    /\ [][ /\ (Running("fetch") /\ result' = "err") =>
                (pc' = "fetch" /\ UNCHANGED <<tables, sent, permits>>)
           /\ (result = "err" /\ pc = "fetch") =>
                (runs' = runs + 1 /\ UNCHANGED tables) ]_vars

C13_Witness ==
    /\ result = "err"
    /\ pc = "fetch"
    /\ ActiveSymbols(symbol_master) # {}
    /\ job_status # <<>>

\* the run that ended last fetched the universe this run fetched, and ended
\* with one of `results`
RepeatsRun(results) ==
    /\ before # None
    /\ before[1].result \in results
    /\ before[1].universe = U

\* C14: a run that fetched the universe U of the run that returned Ok before
\* it computes empty new_symbols and delisted_symbols, acquires no permit,
\* sends no enrichment request, builds no record and leaves every
\* symbol_master row as it found it, up to and including its last step
C14_Idempotent ==
    /\ []( (result = "running" /\ Reconciled /\ RepeatsRun({"ok"})
                /\ ~foreign) =>
             /\ new_symbols = <<>>
             /\ delisted_symbols = {}
             /\ permits = 0 /\ sent = 0 /\ records = <<>>
             /\ symbol_master = table0 )
    /\ [][ (Running("record") /\ RepeatsRun({"ok"}) /\ ~foreign
                /\ result' = "ok") =>
             (symbol_master' = table0 /\ sent' = 0) ]_vars

C14_Witness ==
    /\ Running("record")
    /\ RepeatsRun({"ok"})
    /\ ~foreign
    /\ Cardinality(U) = 2
    /\ DOMAIN table0 # U

\* C15: a run that stops (killed, or failed) after the commit and before the
\* delisting update leaves the tables as they are at that moment: every new
\* symbol committed and active, every row of delisted_symbols as the run
\* found it (still active), job_status as the run found it.  The next run,
\* when it fetched the same universe, has exactly the symbols of that
\* universe active from its delisting update on, and when it returns Ok
C15_PartialRunHeals ==
    /\ [][ (Running("delist") /\ result' \in {"killed", "err"}) =>
             /\ UNCHANGED tables
             /\ job_status' = jobs0
             /\ \A s \in SymbolSet(new_symbols) :
                   s \in ActiveSymbols(symbol_master')
             /\ \A s \in delisted_symbols :
                   symbol_master'[s] = table0[s] /\ table0[s].is_active ]_vars
    /\ []( (result = "running" /\ pc \in {"validate", "record"}
                /\ RepeatsRun({"killed", "err"}) /\ ~foreign) =>
             /\ ActiveSymbols(symbol_master) = U
             /\ \A s \in delisted_symbols : ~symbol_master[s].is_active )
    /\ [][ (Running("record") /\ RepeatsRun({"killed", "err"}) /\ ~foreign
                /\ result' = "ok") =>
             ActiveSymbols(symbol_master') = U ]_vars

C15_Witness ==
    /\ Running("record")
    /\ RepeatsRun({"killed", "err"})
    /\ ~foreign
    /\ delisted_symbols # {}
    /\ ActiveSymbols(table0) # U
    /\ ActiveSymbols(symbol_master) = U

\* the tables compared with last_updated left out
IgnoringLastUpdated(tbl) ==
    [s \in DOMAIN tbl |-> [tbl[s] EXCEPT !.last_updated = 0]]

\* the orders in which n records can be processed
ProcessingOrders(n) ==
    { o \in [1..n -> 1..n] : \A i, j \in 1..n : i # j => o[i] # o[j] }

RECURSIVE UpsertInOrder(_, _, _)
\* the table after the upserts of recs[order[1]], recs[order[2]], ...
UpsertInOrder(tbl, recs, order) ==
    IF order = <<>>
    THEN tbl
    ELSE UpsertInOrder(Upsert(tbl, recs[Head(order)]), recs, Tail(order))

\* C16: when a run has returned Ok (and no other client wrote), symbol_master
\* with last_updated left out is the table the run found, with the records of
\* its new symbols upserted in any order whatever and its delistings applied:
\* every processing order of new_symbols gives the contents the run left
C16_OrderIndependent ==
    (result = "ok" /\ ~foreign) =>
        \A o \in ProcessingOrders(Len(records)) :
            LET upserted == UpsertInOrder(table0, records, o)
                expected == IF delisted_symbols # {}
                            THEN ApplyDelistings(upserted, delisted_symbols,
                                                 UtcNow)
                            ELSE upserted
            IN IgnoringLastUpdated(symbol_master)
                  = IgnoringLastUpdated(expected)

C16_Witness ==
    /\ result = "ok"
    /\ ~foreign
    /\ Len(records) = 2
    /\ records[1].name # records[2].name
    /\ delisted_symbols # {}

\* `stored` is the figure of `tenths` tenths truncated toward zero: the
\* integer nearest to it among those that are not farther from zero
TruncatedTowardZero(stored, tenths) ==
    /\ tenths >= 0 => (10 * stored <= tenths /\ tenths < 10 * (stored + 1))
    /\ tenths <= 0 => (10 * stored >= tenths /\ tenths > 10 * (stored - 1))

\* C17: the record built from a Profile has market_cap null exactly when the
\* Profile's figure is null (so for the fallback Profile), and otherwise the
\* figure times 1,000,000 truncated toward zero; the committed row stores the
\* market_cap of its record
C17_MarketCapTruncated ==
    /\ [][ (Running("build") /\ result' = "running") =>
             LET r == records'[Len(records')]
                 c == profile.market_cap
             IN /\ (r.market_cap = None) <=> (c = None)
                /\ c # None => TruncatedTowardZero(r.market_cap[1], c[1])
                /\ profile = FallbackProfile => r.market_cap = None ]_vars
    /\ []( Running("delist") =>
             \A i \in DOMAIN records :
                symbol_master[records[i].symbol].market_cap
                   = records[i].market_cap )

C17_Witness ==
    /\ Running("delist")
    /\ Len(records) = 1
    /\ records[1].market_cap = Some(-2)
    /\ symbol_master[records[1].symbol].market_cap = Some(-2)

\* the symbols whose enrichment ended with a decoded Profile: those already
\* recorded (every Profile of ProviderProfiles names the company, the
\* fallback Profile does not) and the one the loop has just broken with
DecodedSoFar ==
    Cardinality({ i \in DOMAIN records : records[i].name # None })
    + (IF pc = "build" /\ outcomes[Len(outcomes)] = "decoded" THEN 1 ELSE 0)

\* C18 as claimed: the api_calls counter is the number of symbols enriched
\* from a decoded response; a symbol that ended with the fallback Profile,
\* a decode failure included, has added nothing to it
C18_ApiCallsCountDecoded ==
    (result \in {"running", "ok"} /\ Reconciled) =>
        counters.api_calls = DecodedSoFar

\* the symbols the run fetched that had an inactive row when it started
Relisted == { s \in U \cap DOMAIN table0 : ~table0[s].is_active }

\* C19: a fetched symbol with an inactive row is in new_symbols; after the
\* enrichment loop it has a record, built from its own permit and requests;
\* after the commit its row is that record, column for column (nulls
\* included), and active, and symbol_master has one row per symbol it had
\* or fetched: no second row for the relisted symbol
C19_RelistedOverwritten ==
    /\ Reconciled => Relisted \subseteq SymbolSet(new_symbols)
    /\ AfterEnrichment =>
          /\ permits = Len(new_symbols)
          /\ sent >= Len(new_symbols)
          /\ \A s \in Relisted :
                \E i \in DOMAIN records : records[i].symbol = s
    /\ ( /\ result \in {"running", "ok"}
         /\ pc \in {"delist", "validate", "record", "end"}
         /\ ~foreign ) =>
          /\ \A s \in Relisted :
                \E i \in DOMAIN records :
                   /\ records[i].symbol = s
                   /\ symbol_master[s] = records[i]
                   /\ symbol_master[s].is_active
          /\ DOMAIN symbol_master = DOMAIN table0 \cup U
          /\ Cardinality(DOMAIN symbol_master)
                = Cardinality(DOMAIN table0)
                  + Cardinality(U \ DOMAIN table0)

C19_Witness ==
    /\ result = "ok"
    /\ ~foreign
    /\ \E s \in Relisted :
          /\ table0[s].name # None
          /\ table0[s].market_cap # None
          /\ symbol_master[s].name = None
          /\ symbol_master[s].market_cap = None
          /\ symbol_master[s].is_active
    /\ \E s \in Relisted :
          symbol_master[s].last_updated # table0[s].last_updated

\* the statements of the enrichment loop
Enriching ==
    result = "running" /\ pc \in {"limiter", "request", "build"}

\* C20: the enrichment of a symbol holds exactly one permit, has sent at most
\* 4 requests and slept at most 3 times (one sleep per request but the last),
\* and ends; the loop over new_symbols ends, with one permit per symbol
C20_EnrichmentTerminates ==
    /\ []( (result = "running" /\ pc \in {"request", "build"}) =>
             /\ permits = Len(records) + 1
             /\ Len(outcomes) <= 4
             /\ sleeps <= 3
             /\ pc = "request" =>
                   (Len(outcomes) <= 3 /\ sleeps = Len(outcomes))
             /\ pc = "build" => sleeps = Len(outcomes) - 1 )
    /\ []( AfterEnrichment =>
             (permits = Len(new_symbols) /\ sent <= 4 * Len(new_symbols)) )
    /\ (Running("request") ~> Running("build"))
    /\ (Enriching ~> Running("begin"))

C20_Witness ==
    /\ Running("begin")
    /\ Len(new_symbols) = 2
    /\ permits = 2
    /\ sent = 8

====
